---- MODULE Spec2Model ----
(***************************************************************************)
(* Model of route_planner/solver_api/solver_app.py: one POST /solve        *)
(* request, from the parsed SolveRequest to its response.                  *)
(*                                                                         *)
(* Python lists are sequences (Python index i is TLA+ index i + 1).        *)
(* Optional[T] is a set with at most one element: {} is None, {x} is x.    *)
(*                                                                         *)
(* OR-Tools is called, not implemented, by the source.  The model states   *)
(* what each call made by the source does:                                 *)
(*  - RoutingIndexManager(n, 1, [s], [e]) gives every node that is a start *)
(*    or is not an end an index 0, 1, ... in node order, and the vehicle's *)
(*    end the extra index Size(); NodeToIndex of a node that is only an    *)
(*    end is -1 (kUnassigned);                                             *)
(*  - RoutingModel.IsEnd(index) is index >= Size();                        *)
(*  - RoutingDimension.CumulVar(index) is cumuls_[index], unchecked: with  *)
(*    index -1 it reads outside the vector (undefined behaviour);          *)
(*  - IntVar.SetValue(v) with v outside the variable's domain raises the   *)
(*    Python exception "CP Solver fail";                                   *)
(*  - SolveWithParameters returns an assignment that satisfies every       *)
(*    constraint of the model, or None.                                    *)
(***************************************************************************)
EXTENDS Integers, Sequences, FiniteSets, TLC

VARIABLES req, pc, status, detail, built, pins, precs, garbage,
          solve_calls, sol, cumul, index, route_nodes, travel_sum,
          service_sum, resp

vars == <<req, pc, status, detail, built, pins, precs, garbage,
          solve_calls, sol, cumul, index, route_nodes, travel_sum,
          service_sum, resp>>

(* ------------------------------ bounds -------------------------------- *)
MaxN == 3

(* ------------------------- Optional and lists ------------------------- *)
None == {}
Some(x) == {x}
IsNone(o) == o = {}
Val(o) == CHOOSE x \in o : TRUE
At(l, i) == l[i + 1]
Range(l) == {l[i] : i \in DOMAIN l}
Repeat(x, n) == [i \in 1..n |-> x]

RECURSIVE SumSeq(_)
SumSeq(l) == IF l = <<>> THEN 0 ELSE Head(l) + SumSeq(Tail(l))

(* --------------------- pydantic Field constraints --------------------- *)
MinClients == 2
MinTimeLimit == 1
MaxTimeLimit == 30

SchemaErrors(r) ==
    {f \in {"client_ids", "start_index", "end_index", "time_limit_seconds"} :
        \/ f = "client_ids" /\ Len(r.client_ids) < MinClients
        \/ f = "start_index" /\ r.start_index < 0
        \/ f = "end_index" /\ r.end_index < 0
        \/ f = "time_limit_seconds"
           /\ (r.time_limit_seconds < MinTimeLimit \/ r.time_limit_seconds > MaxTimeLimit)}

(* ------------------------------ _validate ----------------------------- *)
MsgMatrixShape == "matrix_minutes must be NxN and match client_ids length"
MsgMatrixNeg == "matrix_minutes must contain non-negative integers"
MsgService == "service_minutes must match length and be non-negative ints"
MsgLockedLen == "locked_positions length must match client_ids length"
MsgLockedNeg == "locked_positions must be int>=0 or null"
\* (faulty variant of MsgPrioLen: the locked_positions message pasted)
MsgPrioLenCopied == "locked_positions length must match client_ids length"
MsgPrioLen == "priority_flags length must match client_ids length"
MsgRange == "start_index/end_index out of range"
MsgLockedDup == "locked_positions has duplicate fixed positions (conflict)"

\* lines 40-41, 45-46, 53-54: the defaults _validate writes into the request
ServiceOf(r) ==
    IF IsNone(r.service_minutes) THEN Repeat(0, Len(r.client_ids))
    ELSE Val(r.service_minutes)
LockedOf(r) ==
    IF IsNone(r.locked_positions) THEN Repeat(None, Len(r.client_ids))
    ELSE Val(r.locked_positions)
PrioOf(r) ==
    IF IsNone(r.priority_flags) THEN Repeat(FALSE, Len(r.client_ids))
    ELSE Val(r.priority_flags)

\* line 62: locked_vals, a list (duplicates kept)
LockedVals(lp) == SelectSeq(lp, LAMBDA v : ~IsNone(v))

\* lines 62-63: len(locked_vals) != len(set(locked_vals))
\* (faulty variant: the comparison never fires)
HasDuplicateLocksMissed(lp) ==
    Len(LockedVals(lp)) < Cardinality({Val(v) : v \in Range(LockedVals(lp))})
HasDuplicateLocks(lp) ==
    Len(LockedVals(lp)) # Cardinality({Val(v) : v \in Range(LockedVals(lp))})

\* The message of the first HTTPException(400, ...) _validate raises, "" if none.
Validate(r) ==
    LET n == Len(r.client_ids)
        m == r.matrix_minutes
        sv == ServiceOf(r)
        lp == LockedOf(r)
        pf == PrioOf(r)
    IN  IF Len(m) # n \/ \E i \in DOMAIN m : Len(m[i]) # n THEN MsgMatrixShape
        ELSE IF \E i \in DOMAIN m : \E j \in DOMAIN m[i] : m[i][j] < 0 THEN MsgMatrixNeg
        ELSE IF Len(sv) # n \/ \E i \in DOMAIN sv : sv[i] < 0 THEN MsgService
        ELSE IF Len(lp) # n THEN MsgLockedLen
        ELSE IF \E i \in DOMAIN lp : ~IsNone(lp[i]) /\ Val(lp[i]) < 0 THEN MsgLockedNeg
        ELSE IF Len(pf) # n THEN MsgPrioLen
        ELSE IF ~(0 <= r.start_index /\ r.start_index < n)
                \/ ~(0 <= r.end_index /\ r.end_index < n) THEN MsgRange
        ELSE IF HasDuplicateLocks(lp) THEN MsgLockedDup
        ELSE ""

\* The request as _validate leaves it: the three optional lists filled in.
Normalised(r) ==
    [r EXCEPT !.service_minutes = Some(ServiceOf(r)),
              !.locked_positions = Some(LockedOf(r)),
              !.priority_flags = Some(PrioOf(r))]

(* ------------------------ RoutingIndexManager -------------------------- *)
\* line 73: RoutingIndexManager(n, 1, [start_index], [end_index])
kUnassigned == -1
NumNodes(r) == Len(r.client_ids)
Nodes(r) == 0..(NumNodes(r) - 1)

\* RoutingModel.Size(): the indices that have a NextVar (every node but a pure end)
Size(r) == IF r.start_index = r.end_index THEN NumNodes(r) ELSE NumNodes(r) - 1

\* manager.NodeToIndex(node): a node that is an end and not a start has no index
NodeToIndex(r, node) ==
    IF node = r.end_index /\ node # r.start_index THEN kUnassigned
    ELSE Cardinality({i \in 0..(node - 1) : i = r.start_index \/ i # r.end_index})

\* routing.Start(0) and routing.End(0)
Start(r) == NodeToIndex(r, r.start_index)
End(r) == Size(r)
Indices(r) == 0..Size(r)

\* manager.IndexToNode(index)
IndexToNode(r, idx) ==
    IF idx = End(r) THEN r.end_index
    ELSE CHOOSE node \in Nodes(r) : NodeToIndex(r, node) = idx

\* routing.IsEnd(index)
IsEnd(r, idx) == idx >= Size(r)

(* --------------------------- COUNT dimension -------------------------- *)
\* lines 88-90: step_cb
\* (faulty variant: a step of 2)
StepCbTwice(from, to) == 2
StepCb(from, to) == 1

\* line 97: the dimension's capacity
Capacity(r) == NumNodes(r) + 2

(***************************************************************************)
(* What count_dim.CumulVar(idx) yields.  For an index of the model it is   *)
(* that index's variable.  For idx = -1 the read is outside cumuls_: the   *)
(* word read there (g) is not a pointer at all and using it faults         *)
(* ("fault"), or it points to an object that is no variable of this model  *)
(* ("stray"), or it points to some variable of the model ("alias").        *)
(***************************************************************************)
Unread == [kind |-> "unread", var |-> 0]
GarbageOutcomes(r) ==
    {[kind |-> "fault", var |-> 0], [kind |-> "stray", var |-> 0]}
    \cup {[kind |-> "alias", var |-> i] : i \in Indices(r)}

OutOfBounds(r, idx) == idx \notin Indices(r)

CumulVar(r, idx, g) ==
    IF OutOfBounds(r, idx) THEN g ELSE [kind |-> "var", var |-> idx]

\* The domain of a cumul variable while the model is built: AddDimension with
\* fix_start_cumul_to_zero fixes the start's to 0, an earlier SetValue fixes it,
\* and it is 0..capacity otherwise.
DomainOf(r, v, ps) ==
    IF v = Start(r) THEN {0}
    ELSE IF \E p \in ps : p[1] = v THEN {p[2] : p \in {q \in ps : q[1] = v}}
    ELSE 0..Capacity(r)

(* ------------------------- 2) LOCKED, lines 106-116 ------------------- *)
\* line 116: the value the cumul variable is set to, int(fixed_pos)
\* (faulty variant: the lock value read as 1-based)
PinValueOneBased(fixed_pos) == Val(fixed_pos) + 1
PinValue(fixed_pos) == Val(fixed_pos)

\* The loop from `node` on, with the pins made so far.  out: "ok", "exception"
\* (SetValue raised) or "crash" (the out-of-bounds read faulted); ub: whether
\* CumulVar was read out of bounds.
RECURSIVE LockLoop(_, _, _, _, _)
LockLoop(r, g, node, ps, ub) ==
    IF node >= NumNodes(r) THEN [out |-> "ok", pins |-> ps, ub |-> ub]
    ELSE LET fixed_pos == At(LockedOf(r), node)
             idx == NodeToIndex(r, node)
             cv == CumulVar(r, idx, g)
             read == OutOfBounds(r, idx)
         IN  IF IsNone(fixed_pos) THEN LockLoop(r, g, node + 1, ps, ub)
             ELSE IF IsEnd(r, idx) THEN LockLoop(r, g, node + 1, ps, ub)
             ELSE IF cv.kind = "fault" THEN [out |-> "crash", pins |-> ps, ub |-> TRUE]
             ELSE IF cv.kind = "stray" THEN LockLoop(r, g, node + 1, ps, TRUE)
             ELSE IF PinValue(fixed_pos) \notin DomainOf(r, cv.var, ps)
                  THEN [out |-> "exception", pins |-> ps, ub |-> ub \/ read]
             ELSE LockLoop(r, g, node + 1, ps \cup {<<cv.var, PinValue(fixed_pos)>>},
                           ub \/ read)

(* ------------------------ 3) PRIORITY, lines 121-133 ------------------ *)
UnlockedNodes(r) == {i \in Nodes(r) : IsNone(At(LockedOf(r), i))}
PrioNodes(r) == {i \in UnlockedNodes(r) : At(PrioOf(r), i)}
NonPrioNodes(r) == {i \in UnlockedNodes(r) : ~At(PrioOf(r), i)}

\* (faulty variant: the inequality posted the other way round)
PrioPairsReversed(r) ==
    {pq \in NonPrioNodes(r) \X PrioNodes(r) :
        /\ ~(NodeToIndex(r, pq[1]) >= Size(r))
        /\ ~(NodeToIndex(r, pq[2]) >= Size(r))}

\* The (p, q) for which line 133 is reached
PrioPairs(r) ==
    {pq \in PrioNodes(r) \X NonPrioNodes(r) :
        /\ ~IsEnd(r, NodeToIndex(r, pq[1]))
        /\ ~IsEnd(r, NodeToIndex(r, pq[2]))}

PriorityLoop(r, g) ==
    LET reads == {pq \in PrioPairs(r) :
                     \/ OutOfBounds(r, NodeToIndex(r, pq[1]))
                     \/ OutOfBounds(r, NodeToIndex(r, pq[2]))}
        pv(pq) == CumulVar(r, NodeToIndex(r, pq[1]), g)
        qv(pq) == CumulVar(r, NodeToIndex(r, pq[2]), g)
    IN  IF reads # {} /\ g.kind = "fault"
        THEN [out |-> "crash", precs |-> {}, ub |-> TRUE]
        ELSE [out |-> "ok",
              precs |-> {<<pv(pq).var, qv(pq).var>> :
                           pq \in {x \in PrioPairs(r) :
                                      pv(x).kind # "stray" /\ qv(x).kind # "stray"}},
              ub |-> reads # {}]

(* ----------------------- the routes of the model ---------------------- *)
Perms(S) ==
    {f \in [1..Cardinality(S) -> S] :
        \A i, j \in 1..Cardinality(S) : i # j => f[i] # f[j]}

\* One vehicle from Start to End through every other index, each once.
Routes(r) ==
    {<<Start(r)>> \o p \o <<End(r)>> : p \in Perms((0..(Size(r) - 1)) \ {Start(r)})}

\* The COUNT cumul at the k-th stop: 0 at the start, plus the transit of each arc
\* (slack 0).
RECURSIVE CumulAt(_, _)
CumulAt(route, k) ==
    IF k = 1 THEN 0
    ELSE CumulAt(route, k - 1) + StepCb(route[k - 1], route[k])

CumulOf(route) ==
    [idx \in Range(route) |-> CumulAt(route, CHOOSE k \in DOMAIN route : route[k] = idx)]

Feasible(r, route, ps, pcs) ==
    LET c == CumulOf(route)
    IN  /\ \A idx \in DOMAIN c : c[idx] <= Capacity(r)
        /\ \A p \in ps : c[p[1]] = p[2]
        /\ \A q \in pcs : c[q[1]] <= c[q[2]]

FeasibleRoutes(r, ps, pcs) == {route \in Routes(r) : Feasible(r, route, ps, pcs)}

\* lines 160-161: what one iteration adds to travel_sum and to service_sum
TravelCharge(r, i, j) == At(At(r.matrix_minutes, i), j)
\* (faulty variant: service charged at the location arrived at)
ServiceChargeAtArrival(r, i, j) == At(ServiceOf(r), j)
ServiceCharge(r, i, j) == At(ServiceOf(r), i)

\* line 165: route_nodes.append(manager.IndexToNode(index))
\* (faulty variant: the end is not appended)
RouteWithEndForgotten(r, nodes, idx) == nodes
RouteWithEnd(r, nodes, idx) == Append(nodes, IndexToNode(r, idx))

\* sol.Value(routing.NextVar(index))
NextOf(route, idx) == route[(CHOOSE k \in DOMAIN route : route[k] = idx) + 1]

(* ------------------------------ requests ------------------------------ *)
DefaultTimeLimit == 3
Names == <<"H", "A", "B", "C", "D", "E">>
ClientIds(n) == SubSeq(Names, 1, n)

\* The all-1-off-diagonal matrix, and one with n*n different entries
UnitMatrix(n) == [i \in 1..n |-> [j \in 1..n |-> IF i = j THEN 0 ELSE 1]]
SkewMatrix(n) == [i \in 1..n |-> [j \in 1..n |-> n * (i - 1) + j]]
MatrixChoices(n) ==
    {UnitMatrix(n), SkewMatrix(n),
     SubSeq(SkewMatrix(n), 1, n - 1),                          \* a row short
     [i \in 1..n |-> IF i = 1 THEN Tail(SkewMatrix(n)[1]) ELSE SkewMatrix(n)[i]],
     [i \in 1..n |-> [j \in 1..n |-> IF i = n /\ j = 1 THEN -1 ELSE 1]]}

ServiceSeq(n) == [i \in 1..n |-> 10 * i]
ServiceChoices(n) ==
    {None, Some(ServiceSeq(n)), Some(ServiceSeq(n + 1)),
     Some([i \in 1..n |-> IF i = n THEN -1 ELSE 0])}

\* A lock value: unset, a position 0..n, or one above the COUNT capacity
LockChoices(n) == {None} \cup {Some(k) : k \in (0..n) \cup {n + 3}}
AllLocks(n) == [1..n -> LockChoices(n)]
FewLocks(n) ==
    {None,
     Some([i \in 1..n |-> IF i = 2 THEN Some(1) ELSE None]),
     Some([i \in 1..n |-> IF i <= 2 THEN Some(1) ELSE None]),
     Some(Repeat(None, n + 1)),
     Some([i \in 1..n |-> IF i = 1 THEN Some(-1) ELSE None])}

\* The flag of a locked location is not read: FALSE there, or TRUE everywhere
PrioFor(n, lp) ==
    {pf \in [1..n -> BOOLEAN] :
        \/ \A i \in 1..n : ~IsNone(lp[i]) => ~pf[i]
        \/ \A i \in 1..n : pf[i]}
FewPrios(n) == {None, Some(Repeat(TRUE, n)), Some(Repeat(FALSE, n + 1))}

Request(n, m, sv, lp, pf, s, e, tl) ==
    [client_ids |-> ClientIds(n), matrix_minutes |-> m, service_minutes |-> sv,
     locked_positions |-> lp, priority_flags |-> pf,
     start_index |-> s, end_index |-> e, time_limit_seconds |-> tl]

\* Well-typed requests over every lock vector, flag vector, start and end
IsSolveRequest(r) ==
    \E n \in 2..MaxN : \E lp \in AllLocks(n) : \E pf \in PrioFor(n, lp) :
      \E s \in 0..(n - 1) : \E e \in 0..(n - 1) :
        r = Request(n, SkewMatrix(n), Some(ServiceSeq(n)), Some(lp), Some(pf), s, e,
                    DefaultTimeLimit)

\* Every field valid, defaulted or breaking one of its rules, in every combination
IsMixedRequest(r) ==
    \E n \in 1..MaxN : \E m \in MatrixChoices(n) : \E sv \in ServiceChoices(n) :
      \E lp \in FewLocks(n) : \E pf \in FewPrios(n) :
        \E s \in {-1, 0, n} : \E e \in {-1, 0, n - 1, n} :
          \E tl \in {MinTimeLimit - 1, MinTimeLimit, MaxTimeLimit, MaxTimeLimit + 1} :
            r = Request(n, m, sv, lp, pf, s, e, tl)

NoResponse ==
    [order |-> <<>>, visit_order |-> <<>>, total_travel_minutes |-> 0,
     total_service_minutes |-> 0, total_cost_minutes |-> 0, status |-> ""]

(* ------------------------------- actions ------------------------------ *)
Init ==
    /\ (IsSolveRequest(req) \/ IsMixedRequest(req))
    /\ pc = "received"
    /\ status = 0
    /\ detail = {}
    /\ built = FALSE
    /\ pins = {}
    /\ precs = {}
    /\ garbage = Unread
    /\ solve_calls = 0
    /\ sol = <<>>
    /\ cumul = <<>>
    /\ index = 0
    /\ route_nodes = <<>>
    /\ travel_sum = 0
    /\ service_sum = 0
    /\ resp = NoResponse

\* lines 9-20: FastAPI parses the body into a SolveRequest; a Field constraint
\* that fails is answered 422 and solve() is not entered.
ParseRequest ==
    /\ pc = "received"
    /\ IF SchemaErrors(req) # {}
       THEN /\ pc' = "rejected"
            /\ status' = 422
            /\ detail' = SchemaErrors(req)
       ELSE /\ pc' = "validate"
            /\ UNCHANGED <<status, detail>>
    /\ UNCHANGED <<req, built, pins, precs, garbage, solve_calls, sol, cumul, index,
                   route_nodes, travel_sum, service_sum, resp>>

\* line 69 and lines 32-64: _validate(req)
ValidateRequest ==
    /\ pc = "validate"
    /\ IF Validate(req) # ""
       THEN /\ pc' = "rejected"
            /\ status' = 400
            /\ detail' = {Validate(req)}
            /\ req' = req
       ELSE /\ pc' = "build"
            /\ req' = Normalised(req)
            /\ UNCHANGED <<status, detail>>
    /\ UNCHANGED <<built, pins, precs, garbage, solve_calls, sol, cumul, index,
                   route_nodes, travel_sum, service_sum, resp>>

\* lines 70-133: the manager, the routing model, the COUNT dimension, the locks
\* and the priority inequalities.  An exception SetValue raises leaves solve()
\* unhandled (FastAPI answers 500 Internal Server Error); a fault ends the process.
BuildModel ==
    /\ pc = "build"
    /\ \E g \in GarbageOutcomes(req) :
          LET lk == LockLoop(req, g, 0, {}, FALSE)
              pr == PriorityLoop(req, g)
              out == IF lk.out # "ok" THEN lk.out ELSE pr.out
          IN  /\ pins' = lk.pins
              /\ precs' = IF out = "ok" THEN pr.precs ELSE {}
              /\ garbage' = IF lk.ub \/ (lk.out = "ok" /\ pr.ub) THEN g ELSE Unread
              /\ pc' = IF out = "ok" THEN "solve"
                       ELSE IF out = "crash" THEN "crashed" ELSE "exception"
              /\ status' = IF out = "exception" THEN 500 ELSE status
              /\ detail' = IF out = "exception" THEN {"Internal Server Error"} ELSE detail
    /\ built' = TRUE
    /\ UNCHANGED <<req, solve_calls, sol, cumul, index, route_nodes, travel_sum,
                   service_sum, resp>>

\* lines 138-143 and 148: SolveWithParameters returns a solution
SolveFound ==
    /\ pc = "solve"
    /\ \E route \in FeasibleRoutes(req, pins, precs) :
          /\ sol' = route
          /\ cumul' = CumulOf(route)
    /\ solve_calls' = solve_calls + 1
    /\ index' = Start(req)
    /\ pc' = "extract"
    /\ UNCHANGED <<req, status, detail, built, pins, precs, garbage, route_nodes,
                   travel_sum, service_sum, resp>>

\* lines 143-145: SolveWithParameters returns None (no route satisfies the
\* constraints, or none was found within the time limit)
SolveNone ==
    /\ pc = "solve"
    /\ solve_calls' = solve_calls + 1
    /\ pc' = "failed"
    /\ status' = 500
    /\ detail' = {"No solution found (constraints may be too tight)"}
    /\ UNCHANGED <<req, built, pins, precs, garbage, sol, cumul, index, route_nodes,
                   travel_sum, service_sum, resp>>

\* lines 153-163: one iteration of the extraction loop
ExtractStep ==
    /\ pc = "extract"
    /\ ~IsEnd(req, index)
    /\ LET i == IndexToNode(req, index)
           nxt == NextOf(sol, index)
           j == IndexToNode(req, nxt)
       IN  /\ route_nodes' = Append(route_nodes, i)
           /\ travel_sum' = travel_sum + TravelCharge(req, i, j)
           /\ service_sum' = service_sum + ServiceCharge(req, i, j)
           /\ index' = nxt
    /\ UNCHANGED <<req, pc, status, detail, built, pins, precs, garbage, solve_calls,
                   sol, cumul, resp>>

\* lines 165-177: the end is appended and the response is built
Respond ==
    /\ pc = "extract"
    /\ IsEnd(req, index)
    /\ LET nodes == RouteWithEnd(req, route_nodes, index)
       IN  /\ route_nodes' = nodes
           /\ resp' = [order |-> [k \in DOMAIN nodes |-> At(req.client_ids, nodes[k])],
                       visit_order |-> [k \in 1..(Len(nodes) - 2) |->
                                           At(req.client_ids, nodes[k + 1])],
                       total_travel_minutes |-> travel_sum,
                       total_service_minutes |-> service_sum,
                       total_cost_minutes |-> travel_sum + service_sum,
                       status |-> "OK"]
    /\ pc' = "ok"
    /\ status' = 200
    /\ UNCHANGED <<req, detail, built, pins, precs, garbage, solve_calls, sol, cumul,
                   index, travel_sum, service_sum>>

Next ==
    \/ ParseRequest
    \/ ValidateRequest
    \/ BuildModel
    \/ SolveFound
    \/ SolveNone
    \/ ExtractStep
    \/ Respond

Spec == Init /\ [][Next]_vars

(* ------------------------- vocabulary of the claims ------------------- *)
N == NumNodes(req)
IdOf(node) == At(req.client_ids, node)
NodeOfId(id) == CHOOSE node \in Nodes(req) : IdOf(node) = id
Order == resp.order
OrderNodes == [k \in DOMAIN Order |-> NodeOfId(Order[k])]
\* The 0-based places of a location in `order`
PositionsOf(node) == {k - 1 : k \in {x \in DOMAIN Order : Order[x] = IdOf(node)}}
LockOf(node) == At(LockedOf(req), node)
FlagOf(node) == At(PrioOf(req), node)
Unconstrained == \A node \in Nodes(req) : IsNone(LockOf(node)) /\ ~FlagOf(node)
Success == pc = "ok"
Solved == pc \in {"extract", "ok"}

\* The validation rules, stated on the request as sent
RuleNames ==
    {"matrix_shape", "matrix_negative", "service_length", "service_negative",
     "locked_length", "locked_negative", "locked_duplicate", "priority_length",
     "start_range", "end_range", "time_limit_range"}
BrokenRules(r) ==
    LET n == Len(r.client_ids)
        m == r.matrix_minutes
        sv == r.service_minutes
        lp == r.locked_positions
        pf == r.priority_flags
    IN  {rule \in RuleNames :
          \/ rule = "matrix_shape" /\ (Len(m) # n \/ \E i \in DOMAIN m : Len(m[i]) # n)
          \/ rule = "matrix_negative" /\ \E i \in DOMAIN m : \E j \in DOMAIN m[i] : m[i][j] < 0
          \/ rule = "service_length" /\ \E l \in sv : Len(l) # n
          \/ rule = "service_negative" /\ \E l \in sv : \E i \in DOMAIN l : l[i] < 0
          \/ rule = "locked_length" /\ \E l \in lp : Len(l) # n
          \/ rule = "locked_negative" /\ \E l \in lp : \E i \in DOMAIN l : \E v \in l[i] : v < 0
          \/ rule = "locked_duplicate"
             /\ \E l \in lp : \E i, j \in DOMAIN l : i # j /\ l[i] # None /\ l[i] = l[j]
          \/ rule = "priority_length" /\ \E l \in pf : Len(l) # n
          \/ rule = "start_range" /\ ~(r.start_index \in 0..(n - 1))
          \/ rule = "end_range" /\ ~(r.end_index \in 0..(n - 1))
          \/ rule = "time_limit_range" /\ ~(r.time_limit_seconds \in 1..30)}

(* -------------------------------- C1 ---------------------------------- *)
\* C1 (as claimed): with no lock and no priority flag set, every success response's
\* order holds each of the n locations exactly once, starts with the start location,
\* ends with the end location, and total_cost = total_travel + total_service.
C1_PermutationOfAll ==
    (Success /\ Unconstrained) =>
        /\ Len(Order) = N
        /\ \A node \in Nodes(req) : Cardinality(PositionsOf(node)) = 1
        /\ Order[1] = IdOf(req.start_index)
        /\ Order[Len(Order)] = IdOf(req.end_index)
        /\ resp.total_cost_minutes
             = resp.total_travel_minutes + resp.total_service_minutes

\* C1 (amended): the same, but when start_index = end_index the order has n + 1
\* elements: the start location first and last, every other location exactly once.
C1_RouteShape ==
    (Success /\ Unconstrained) =>
        /\ Order[1] = IdOf(req.start_index)
        /\ Order[Len(Order)] = IdOf(req.end_index)
        /\ resp.total_cost_minutes
             = resp.total_travel_minutes + resp.total_service_minutes
        /\ IF req.start_index # req.end_index
           THEN /\ Len(Order) = N
                /\ \A node \in Nodes(req) : Cardinality(PositionsOf(node)) = 1
           ELSE /\ Len(Order) = N + 1
                /\ \A node \in Nodes(req) :
                      PositionsOf(node) \cap (1..(N - 1))
                        = IF node = req.start_index THEN {} ELSE PositionsOf(node)
                /\ \A node \in Nodes(req) :
                      Cardinality(PositionsOf(node))
                        = IF node = req.start_index THEN 2 ELSE 1

C1_Witness ==
    /\ Success /\ Unconstrained
    /\ req.start_index = req.end_index
    /\ N >= 3
    /\ resp.total_service_minutes > 0

(* -------------------------------- C2 ---------------------------------- *)
\* C2: in every success response, a location with lock value k that is not the
\* designated end location is at index k of order.
C2_LockedAtPosition ==
    Success =>
        \A node \in Nodes(req) :
            (~IsNone(LockOf(node)) /\ node # req.end_index) =>
                /\ Val(LockOf(node)) < Len(Order)
                /\ Order[Val(LockOf(node)) + 1] = IdOf(node)

C2_Witness ==
    /\ Success
    /\ garbage = Unread
    /\ \E node \in Nodes(req) :
          /\ node \notin {req.start_index, req.end_index}
          /\ ~IsNone(LockOf(node))
          /\ Order[Val(LockOf(node)) + 1] = IdOf(node)

(* -------------------------------- C3 ---------------------------------- *)
\* C3 (as claimed): in every success response every unlocked priority location is
\* at a smaller position of order than every unlocked non-priority location
\* (stated on the runs that read nothing out of bounds while the model is built).
C3_PriorityFirst ==
    (Success /\ garbage = Unread) =>
        \A p \in PrioNodes(req), q \in NonPrioNodes(req) :
            \A a \in PositionsOf(p), b \in PositionsOf(q) : a < b

\* C3 (amended): the same for the locations other than the designated end location.
C3_PriorityFirstBeforeEnd ==
    Success =>
        \A p \in PrioNodes(req) \ {req.end_index},
           q \in NonPrioNodes(req) \ {req.end_index} :
            \A a \in PositionsOf(p), b \in PositionsOf(q) : a < b

C3_Witness ==
    /\ Success
    /\ garbage = Unread
    /\ PrioNodes(req) \ {req.end_index} # {}
    /\ NonPrioNodes(req) \ {req.end_index} # {}

(* -------------------------------- C4 ---------------------------------- *)
\* C4: a request that breaks a validation rule is answered with a validation error
\* (422 from the schema, 400 from _validate) whatever its other fields; the routing
\* model is never built and no solve is attempted for it.
C4_RejectedBeforeModel ==
    BrokenRules(req) # {} =>
        /\ pc \in {"received", "validate", "rejected"}
        /\ pc = "received" => (SchemaErrors(req) # {} \/ Validate(req) # "")
        /\ pc = "validate" => Validate(req) # ""
        /\ pc = "rejected" => (status \in {400, 422} /\ detail # {})
        /\ ~built
        /\ solve_calls = 0
        /\ resp = NoResponse

C4_Witness ==
    /\ pc = "rejected"
    /\ status = 400
    /\ detail = {MsgLockedDup}
    /\ BrokenRules(req) = {"locked_duplicate"}
    /\ ~built

(* -------------------------------- C5 ---------------------------------- *)
\* C5: total_service_minutes is the sum of service_minutes over every element of
\* order but the last, total_travel_minutes the sum of matrix_minutes over the
\* consecutive pairs of order, and total_cost_minutes their sum.
C5_Totals ==
    Success =>
        LET nodes == OrderNodes
            arcs == 1..(Len(nodes) - 1)
        IN  /\ resp.total_service_minutes
                 = SumSeq([k \in arcs |-> At(ServiceOf(req), nodes[k])])
            /\ resp.total_travel_minutes
                 = SumSeq([k \in arcs |->
                             At(At(req.matrix_minutes, nodes[k]), nodes[k + 1])])
            /\ resp.total_cost_minutes
                 = resp.total_travel_minutes + resp.total_service_minutes

C5_Witness ==
    /\ Success
    /\ req.start_index # req.end_index
    /\ N >= 3
    /\ At(ServiceOf(req), req.end_index) > 0
    /\ resp.total_service_minutes > 0

(* -------------------------------- C6 ---------------------------------- *)
\* C6: a request ends in a validation error, in the solver-failure error or in a
\* success response carrying a complete route, and in nothing else; when no route
\* satisfies the constraints it is the solver-failure error, with no order and no
\* totals; the solve is invoked at most once.
C6_ThreeOutcomes ==
    /\ pc \in {"received", "validate", "build", "solve", "extract",
               "rejected", "failed", "ok"}
    /\ pc \in {"rejected", "failed"} => resp = NoResponse
    /\ pc = "rejected" => status \in {400, 422}
    /\ pc = "failed" => (status = 500 /\ solve_calls = 1)
    /\ pc \in {"extract", "ok"} => sol \in FeasibleRoutes(req, pins, precs)
    /\ pc = "ok" => (status = 200 /\ Len(resp.order) = Len(sol))
    /\ solve_calls <= 1

(* -------------------------------- C7 ---------------------------------- *)
\* Requests that pass the schema, every field valid or breaking one of its rules
RuleProbes ==
    {Request(MaxN, m, sv, lp, pf, s, e, DefaultTimeLimit) :
        m \in MatrixChoices(MaxN), sv \in ServiceChoices(MaxN), lp \in FewLocks(MaxN),
        pf \in FewPrios(MaxN), s \in {0, MaxN}, e \in {0, MaxN}}

\* The rules that, broken alone, are reported with message msg
RulesReportedBy(msg) ==
    {rule \in RuleNames :
        \E r \in RuleProbes : BrokenRules(r) = {rule} /\ Validate(r) = msg}

Messages ==
    {MsgMatrixShape, MsgMatrixNeg, MsgService, MsgLockedLen, MsgLockedNeg, MsgPrioLen,
     MsgRange, MsgLockedDup}
MessageTable == [msg \in Messages |-> RulesReportedBy(msg)]

\* C7 (as claimed): requests that fail different rules of _validate never get the
\* same message: the message of a rejected request names one rule.
C7_MessagePerRule ==
    (pc = "rejected" /\ status = 400) =>
        \A msg \in detail : Cardinality(MessageTable[msg]) = 1

\* C7 (amended): the same, except that the two service_minutes rules (length,
\* negative entry) share one message and the two range rules (start_index,
\* end_index) share one message.
C7_MessagePerCheck ==
    (pc = "rejected" /\ status = 400) =>
        \A msg \in detail :
            \/ Cardinality(MessageTable[msg]) = 1
            \/ MessageTable[msg] = {"service_length", "service_negative"}
            \/ MessageTable[msg] = {"start_range", "end_range"}

C7_Witness ==
    /\ pc = "rejected"
    /\ status = 400
    /\ BrokenRules(req) = {"priority_length"}
    /\ detail = {MsgPrioLen}
    /\ MessageTable[MsgPrioLen] = {"priority_length"}

(* -------------------------------- C8 ---------------------------------- *)
CumulValues == {cumul[i] : i \in DOMAIN cumul}

\* C8 (as claimed): in a solved route COUNT is 0 at the start and grows by 1 on
\* every arc; the stops' positions are pairwise distinct, cover 0..n-1 exactly, the
\* end is at n-1, and none is above n + 2.
C8_PositionsCoverN ==
    Solved =>
        /\ cumul[Start(req)] = 0
        /\ \A k \in 1..(Len(sol) - 1) : cumul[sol[k + 1]] = cumul[sol[k]] + 1
        /\ Cardinality(CumulValues) = Len(sol)
        /\ CumulValues = 0..(N - 1)
        /\ cumul[End(req)] = N - 1
        /\ \A v \in CumulValues : v <= N + 2

\* C8 (amended): the same with n stops when start_index # end_index and n + 1
\* stops, positions 0..n, the end at n, when start_index = end_index.
C8_PositionsCoverStops ==
    Solved =>
        LET stops == IF req.start_index = req.end_index THEN N + 1 ELSE N
        IN  /\ Len(sol) = stops
            /\ cumul[Start(req)] = 0
            /\ \A k \in 1..(Len(sol) - 1) : cumul[sol[k + 1]] = cumul[sol[k]] + 1
            /\ Cardinality(CumulValues) = stops
            /\ CumulValues = 0..(stops - 1)
            /\ cumul[End(req)] = stops - 1
            /\ \A v \in CumulValues : v <= N + 2

C8_Witness ==
    /\ Solved
    /\ req.start_index = req.end_index
    /\ N >= 3
    /\ cumul[End(req)] = N

(* -------------------------------- C9 ---------------------------------- *)
\* The request with the end location's lock unset
EndUnlocked(r) ==
    [r EXCEPT !.locked_positions =
        Some([k \in DOMAIN LockedOf(r) |->
                 IF k = r.end_index + 1 THEN None ELSE LockedOf(r)[k]])]

\* The routes the model built for request r admits (none if building it fails)
RoutesOfRequest(r, g) ==
    LET lk == LockLoop(r, g, 0, {}, FALSE)
        pr == PriorityLoop(r, g)
    IN  IF lk.out = "ok" /\ pr.out = "ok" THEN FeasibleRoutes(r, lk.pins, pr.precs)
        ELSE {}

\* C9: a lock or a flag on the designated end location adds no constraint: once the
\* model is built, the routes it admits are those of the request with the end's lock
\* unset, and no priority inequality is about the end location.
C9_EndAddsNothing ==
    (built /\ pc \in {"solve", "exception", "crashed"}) =>
        /\ (IF pc = "solve" THEN FeasibleRoutes(req, pins, precs) ELSE {})
             = RoutesOfRequest(EndUnlocked(req), garbage)
        /\ \A pq \in PrioPairs(req) :
              pq[1] # req.end_index /\ pq[2] # req.end_index

(* -------------------------------- C10 --------------------------------- *)
\* C10: when the start location is unlocked with flag false and another unlocked
\* location, not the end location, has flag true, the solve ends in the
\* solver-failure error.
C10_StartBlocksPriority ==
    (/\ built
     /\ req.start_index \in NonPrioNodes(req)
     /\ PrioNodes(req) \ {req.start_index, req.end_index} # {})
        => pc \in {"solve", "failed"}

====
